---- MODULE Spec2Model ----
(***************************************************************************)
(* pubfisher: the Google Scholar scraper state machine (scrapers.py,       *)
(* GScraper / PublicationGScraper) and the interactive driving loop        *)
(* (interactive.py, scrape_interactive).                                   *)
(*                                                                         *)
(* Modelling conventions                                                   *)
(*  - A URL is a page number 1..npages; None (no URL) is 0.  The result    *)
(*    set is a chain: page k links to page k+1, the last page has no link. *)
(*  - A soup (parsed page) is [kind, url]: a results page of url, a        *)
(*    captcha page served instead of url, or NoSoup (Python None).         *)
(*  - A record is <<url, i>>: row i of the results page of url.            *)
(*  - A cookie jar is the set of its cookie names.  cookies = {} stands    *)
(*    for both None and an empty jar: the code only ever tests the jar's   *)
(*    truth value (scrapers.py:217), which is False for both.              *)
(*  - scrape_next_page is a generator: nothing of its body runs before     *)
(*    the first next(), and it is suspended at every yield.  A `raise      *)
(*    StopIteration` inside a generator body surfaces as RuntimeError      *)
(*    (PEP 479, Python >= 3.7); assert statements are enabled.             *)
(*  - The page decoder (_do_scrape) is the abstract per-row contract: the  *)
(*    decoding of a row either yields its record or raises; which one is   *)
(*    the environment's choice at every attempt.                           *)
(***************************************************************************)
EXTENDS Integers, Sequences, FiniteSets, TLC

\* ---- bounds of the model
MaxPages == 2       \* pages of a result set
MaxRecs == 2        \* rows of a page
MaxRetries == 2     \* largest max_retries tried
MaxOut == 4         \* records forwarded by the driver before the model stops it
MaxCalls == 2       \* scrape_next_page calls of a direct caller of the scraper
MaxCount == 2       \* GETs and pacing sleeps of the driver are counted up to here
MaxDelay == 2       \* largest mean_delay tried, in seconds

VARIABLES
  query_url,            \* GScraper._query_url (0 = None)
  next_url,             \* GScraper._next_url  (0 = None)
  new_cookies_needed,   \* GScraper._new_cookies_needed
  cookies,              \* GScraper._cookies
  gens,                 \* the scrape_next_page generator objects, by slot
  drv,                  \* scrape_interactive's frame: pc, soup, retries, e
  max_retries,          \* scrape_interactive's parameter
  mean_delay,           \* scrape_interactive's parameter, in seconds
  npages, nrec,         \* the web site: pages of the result set, rows per page
  out,                  \* history: the records the driver forwarded, in order
  failsSince,           \* history: ScrapeErrors raised to the driver since the
                        \*   last scrape_next_page that completed without fault
  tfaults,              \* history: transport faults since that completion
  faultSeen,            \* history: some fault (transport, captcha, decode) occurred
  handover,             \* history: what a solved captcha delivered (the unlocked
                        \*   page, cookies with both session keys), until the
                        \*   driver's next scrape_next_page call
  resolution,           \* history: the driver's last call of _solve_captcha (its
                        \*   arguments, whether the human abandoned), until the
                        \*   driver's next scrape_next_page call
  io,                   \* history: the GETs the driver caused and its pacing
                        \*   sleeps, each counted up to MaxCount, and the delay
                        \*   of the sleep the last step requested, in tenths
                        \*   of a second (0: it requested none)
  op,                   \* history: the operation the last step performed, and
                        \*   for a run of a generator how that run ended
  nCalls,               \* history: scrape_next_page calls of the direct caller
  lastFail              \* history: the last ScrapeError of a decoding fault: its
                        \*   page and offset, and what its generator had yielded

vars == <<query_url, next_url, new_cookies_needed, cookies, gens, drv,
          max_retries, mean_delay, npages, nrec, out, failsSince,
          tfaults, faultSeen, handover, resolution, io, op, nCalls, lastFail>>

ctlVars == <<query_url, next_url, new_cookies_needed, cookies>>
siteVars == <<npages, nrec, max_retries, mean_delay>>
drvVars == <<drv, out, failsSince, tfaults, faultSeen, handover, resolution,
             io>>

None == 0
Slots == {1}        \* the generator objects kept: the one being iterated
\* the driver's `yield from` holds one generator at a time
DrvSlot == CHOOSE s \in Slots : TRUE
\* a generator object that is run and not kept
NoSlot == CHOOSE n \in 0..Cardinality(Slots) : n \notin Slots
SessionKeys == {"NID", "GSP"}

NoSoup == [kind |-> "none", url |-> 0]
ResultsPage(u) == [kind |-> "results", url |-> u]
CaptchaPage == [kind |-> "captcha", url |-> 0]

NoErr == [kind |-> "none", cause |-> "none", continuation_url |-> 0,
          failure_soup |-> NoSoup, result_no |-> 0, cookies |-> {}]

\* ScrapeError.__init__
ScrapeError(cause, url, soup, no, jar) ==
  [kind |-> "ScrapeError", cause |-> cause, continuation_url |-> url,
   failure_soup |-> soup, result_no |-> no, cookies |-> jar]

\* any other exception: only its class matters
OtherError(kind) == [NoErr EXCEPT !.kind = kind]

\* a scrape_next_page generator object: its arguments and locals (page_soup,
\* start_at, the row index idx, the session's jar and whether that jar is
\* self._cookies itself), where it stands (pc), the exception it ended with,
\* whether its `with` block holds an open session (open),
\* and its history: the records it yielded, the URL it fetched (None: no
\* GET), and whether a query was issued while it was suspended (stale)
NoGen == [pc |-> "none", page_soup |-> NoSoup, start_at |-> 0, idx |-> 0,
          yielded |-> <<>>, jar |-> {}, alias |-> FALSE, err |-> NoErr,
          fetched |-> None, stale |-> FALSE, open |-> FALSE]

NoHandover == [on |-> FALSE, page |-> NoSoup, cookies |-> {}]

NoResolution == [invoked |-> FALSE, abandoned |-> FALSE, url |-> 0,
                 page |-> NoSoup]

\* an operation, seen from outside: name is the operation, result the way a
\* generator's run ended ("yield", "done", or the exception: the ScrapeError's
\* cause, else the exception's class), soup the page that run worked on
Op(name, result, soup) == [name |-> name, result |-> result, soup |-> soup]

RunResult(g) ==
  CASE g.pc = "susp" -> "yield"
    [] g.pc = "done" -> "done"
    [] g.pc = "raised" /\ g.err.kind = "ScrapeError" -> g.err.cause
    [] OTHER -> g.err.kind

NoFail == [on |-> FALSE, soup |-> NoSoup, result_no |-> 0, start_at |-> 0,
           yielded |-> <<>>]

\* GScraper.has_next_page
has_next_page == next_url # None

\* _soup_contains_captcha
soup_contains_captcha(soup) == soup.kind = "captcha"

\* GScraper._find_next_url: the link of the "next" button, None without one
find_next_url(soup) == IF soup.url < npages THEN soup.url + 1 ELSE None

\* the rows of a page: page_soup.find_all('div', 'gs_or')
RowCount(soup) == IF soup.kind = "results" THEN nrec[soup.url] ELSE 0

\* ------------------------------------------------------------------------
\* GScraper.scrape_next_page, as the steps of its generator
\* ------------------------------------------------------------------------

\* the environment's answers
Responses == {"ok", "captcha", "http_error", "conn_error"}  \* to a GET
SetCookieChoices == {{}, {"NID"}}     \* Set-Cookie names of a response
Decodes == {"ok", "fault"}            \* of the decoding of one row

\* (mutation) the gate without its test of has_next_page
Gate_without_exhaustion ==
  IF new_cookies_needed THEN "AssertionError" ELSE "ok"

\* (mutation) the gate without its assert
Gate_without_assert ==
  IF ~has_next_page THEN "RuntimeError" ELSE "ok"

\* lines 268-271: `if not self.has_next_page: raise StopIteration()`, which a
\* generator body turns into RuntimeError, then `assert not new_cookies_needed`
Gate ==
  IF ~has_next_page THEN "RuntimeError"
  ELSE IF new_cookies_needed THEN "AssertionError"
  ELSE "ok"

\* line 275: the URL handed to _get_soup_from_url
fetch_url == query_url

\* (mutation) the rows are not sliced: decoding restarts at the first row
first_row_unsliced(start_at) == 0

\* lines 415-417: outer_rows[start_at:], enumerate(outer_rows, start=start_at)
first_row(start_at) == start_at

\* the outcome of one run of the generator body, up to its next suspension:
\*   gen      the generator object afterwards
\*   set_next whether line 290 ran, and the value it assigned
\*   flag     whether line 278 ran
\*   capture  whether the except clause of _create_http_session ran (line 224)
\*   shared   whether the session's jar was self._cookies itself
Outcome(gen, set_next, nxt, flag, capture, shared) ==
  [gen |-> gen, set_next |-> set_next, next |-> nxt, flag |-> flag,
   capture |-> capture, shared |-> shared]

\* the generator body is left, by its end or by an exception; line 228,
\* `finally: session.close()`
Finished(g, pc, err) ==
  [g EXCEPT !.pc = pc, !.err = err, !.alias = FALSE, !.open = FALSE]

\* (mutation) the rows are enumerated from 0: the offset is relative to
\* start_at
fault_offset_relative(g) == g.idx - g.start_at

\* lines 417 and 430-431: result_no of `enumerate(outer_rows, start=start_at)`
fault_offset(g) == g.idx

\* PublicationGScraper._do_scrape, one turn of its loop (lines 417-433), and
\* lines 290-293 of scrape_next_page once the rows are exhausted
do_scrape_step(g, dec) ==
  IF g.idx >= RowCount(g.page_soup)
  THEN Outcome(Finished(g, "done", NoErr), TRUE, find_next_url(g.page_soup),
               FALSE, FALSE, g.alias)
  ELSE IF dec = "ok"
  THEN Outcome([g EXCEPT !.pc = "susp", !.idx = g.idx + 1,
                         !.yielded = Append(g.yielded, <<g.page_soup.url, g.idx>>)],
               FALSE, None, FALSE, FALSE, g.alias)
  ELSE Outcome(Finished(g, "raised",
                        ScrapeError("Decode", query_url, g.page_soup,
                                    fault_offset(g), g.jar)),
               FALSE, None, FALSE, TRUE, g.alias)

\* lines 277-288: the captcha check on the fetched or supplied page
scrape_page(g, dec) ==
  IF soup_contains_captcha(g.page_soup)
  THEN Outcome(Finished(g, "raised",
                        ScrapeError("Captcha", next_url, g.page_soup, 0, g.jar)),
               FALSE, None, TRUE, TRUE, g.alias)
  ELSE do_scrape_step(g, dec)

\* _create_http_session, lines 216-218: the session's jar is self._cookies
\* itself when that is truthy, a fresh empty jar otherwise
NewSession(page_soup, start_at) ==
  [NoGen EXCEPT !.pc = "run", !.page_soup = page_soup, !.start_at = start_at,
                !.idx = first_row(start_at), !.jar = cookies,
                !.alias = (cookies # {}), !.open = TRUE]

\* _get_soup_from_url / _get_page, lines 195-212, within the session
fetch(g, resp, setc, dec) ==
  LET h == [g EXCEPT !.jar = IF resp = "conn_error" THEN g.jar ELSE g.jar \cup setc,
                     !.fetched = fetch_url]
  IN  CASE fetch_url = None ->     \* session.get(None): requests raises
             Outcome(Finished(h, "raised", OtherError("MissingSchema")),
                     FALSE, None, FALSE, TRUE, g.alias)
        [] resp = "http_error" ->
             Outcome(Finished(h, "raised", OtherError("HTTPError")),
                     FALSE, None, FALSE, TRUE, g.alias)
        [] resp = "conn_error" ->
             Outcome(Finished(h, "raised", OtherError("ConnectionError")),
                     FALSE, None, FALSE, TRUE, g.alias)
        [] resp = "captcha" ->
             scrape_page([h EXCEPT !.page_soup = CaptchaPage], dec)
        [] OTHER ->
             scrape_page([h EXCEPT !.page_soup = ResultsPage(fetch_url)], dec)

\* the first next() of scrape_next_page(page_soup, start_at)
first_next(page_soup, start_at, resp, setc, dec) ==
  LET g == NewSession(page_soup, start_at)
  IN  IF Gate # "ok"
      THEN Outcome(Finished([g EXCEPT !.jar = {}], "raised", OtherError(Gate)),
                   FALSE, None, FALSE, FALSE, FALSE)
      ELSE IF page_soup = NoSoup
      THEN fetch(g, resp, setc, dec)
      ELSE scrape_page(g, dec)

\* (mutation) line 290 runs however the page's scrape ended
cursor_after_any_end(r) ==
  IF r.gen.pc \in {"done", "raised"} THEN r.next ELSE next_url

\* lines 288-290: self._next_url is assigned once `yield from` has returned,
\* and only then
cursor_after(r) == IF r.set_next THEN r.next ELSE next_url

\* (mutation) _create_http_session without its except clause
saved_cookies_uncaptured(r) == IF r.shared THEN r.gen.jar ELSE cookies

\* self._cookies after a run: the session's jar where the except clause of
\* _create_http_session ran (lines 221-225) or where the session's jar is
\* self._cookies itself (line 218); else what it was
saved_cookies(r) == IF r.capture \/ r.shared THEN r.gen.jar ELSE cookies

\* what one run of generator s leaves in the scraper and in the other
\* generators' sessions (a session whose jar is self._cookies sees every
\* cookie set through it; replacing self._cookies ends the sharing)
ApplyOutcome(s, r) ==
  LET newCookies == saved_cookies(r)
      replaced == r.capture /\ ~r.shared
  IN  /\ gens' = [t \in Slots |->
                    IF t = s THEN r.gen
                    ELSE IF gens[t].alias
                         THEN IF replaced THEN [gens[t] EXCEPT !.alias = FALSE]
                              ELSE [gens[t] EXCEPT !.jar = newCookies]
                         ELSE gens[t]]
      /\ cookies' = newCookies
      /\ next_url' = cursor_after(r)
      /\ new_cookies_needed' = (new_cookies_needed \/ r.flag)
      /\ lastFail' = IF r.gen.pc = "raised" /\ r.gen.err.cause = "Decode"
                     THEN [on |-> TRUE, soup |-> r.gen.err.failure_soup,
                           result_no |-> r.gen.err.result_no,
                           start_at |-> r.gen.start_at,
                           yielded |-> r.gen.yielded]
                     ELSE lastFail
      /\ op' = Op("next", RunResult(r.gen), r.gen.page_soup)
      /\ UNCHANGED query_url

\* the environment's choices for a first next(), the server's among resps
\* and setcs; none is drawn where the code does not ask for it
FirstNext(s, page_soup, start_at, resps, setcs) ==
  \E resp \in resps, setc \in setcs, dec \in Decodes :
    /\ (page_soup # NoSoup \/ Gate # "ok") => (resp = "ok" /\ setc = {})
    /\ (resp = "conn_error") => setc = {}
    /\ ApplyOutcome(s, first_next(page_soup, start_at, resp, setc, dec))

\* a later next(): the generator resumes after its yield
Resume(s) ==
  \E dec \in Decodes : ApplyOutcome(s, do_scrape_step(gens[s], dec))

\* ------------------------------------------------------------------------
\* the scraper's other operations
\* ------------------------------------------------------------------------

\* (mutation) the setter clears the flag whatever the cookies are
cookies_setter_flag_unchecked(c) == FALSE

\* (mutation) the setter never clears the flag
cookies_setter_flag_kept(c) == new_cookies_needed

\* GScraper.cookies (setter), lines 179-182: the flag after installing c
cookies_setter_flag(c) ==
  IF new_cookies_needed /\ SessionKeys \subseteq c THEN FALSE
  ELSE new_cookies_needed

\* GScraper.cookies (setter): self._cookies becomes another jar object, so no
\* open session shares it any longer
cookies_setter(c) ==
  /\ new_cookies_needed' = cookies_setter_flag(c)
  /\ cookies' = c
  /\ gens' = [t \in Slots |-> [gens[t] EXCEPT !.alias = FALSE]]

\* GScraper._set_query_url with the notify::query-url handler
\* _on_query_url_changed; called by query_matches_of_key_words and
\* query_citations_of_document_id before the scraper is handed to the driver
IssueQuery(u) ==
  /\ drv.pc = "start"
  /\ query_url' = u
  /\ next_url' = u
  /\ new_cookies_needed' = FALSE
  /\ op' = Op("issue_query", "none", NoSoup)
  /\ gens' = [t \in Slots |-> IF gens[t].pc = "susp"
                               THEN [gens[t] EXCEPT !.stale = TRUE]
                               ELSE gens[t]]
  /\ UNCHANGED <<cookies, siteVars, drvVars, nCalls, lastFail>>

\* ------------------------------------------------------------------------
\* interactive.py: scrape_interactive
\* ------------------------------------------------------------------------

\* line 170: scrape_next_page(soup) is called without start_at, so with its
\* default (scrapers.py:258)
drv_start_at(e) == 0

\* (mutation) the driver drops the failed page and fetches again
retry_soup_refetch(e) == NoSoup

\* line 184: the page the driver retries with after a ScrapeError that is no
\* captcha
retry_soup(e) == e.failure_soup

\* (mutation) the counter is not reset
retries_not_reset(r) == r

\* line 187: the counter after a page completed
retries_after_success(r) == 0

TransportKinds == {"HTTPError", "ConnectionError"}

Counted(n) == IF n < MaxCount THEN n + 1 ELSE MaxCount

\* `yield from`: what the generator's run means for the driver.  A yielded
\* record is forwarded, a ScrapeError enters the except clause (line 171),
\* normal completion the else clause (line 185), any other exception leaves
\* scrape_interactive.
DrvAfterGen ==
  LET g == gens'[DrvSlot]
  IN  /\ drv' = CASE g.pc = "susp" -> [drv EXCEPT !.pc = "iter"]
                  [] g.pc = "done" -> [drv EXCEPT !.pc = "else"]
                  [] g.pc = "raised" /\ g.err.kind = "ScrapeError" ->
                       [drv EXCEPT !.pc = "except", !.e = g.err]
                  [] OTHER -> [drv EXCEPT !.pc = "raised", !.e = g.err]
      /\ out' = IF g.pc = "susp" THEN Append(out, g.yielded[Len(g.yielded)])
                ELSE out
      /\ failsSince' = CASE g.pc = "done" -> 0
                         [] g.pc = "raised" /\ g.err.kind = "ScrapeError" ->
                              failsSince + 1
                         [] OTHER -> failsSince
      /\ faultSeen' = (faultSeen \/ g.pc = "raised")
      /\ tfaults' = CASE g.pc = "done" -> 0
                      [] g.pc = "raised" /\ g.err.kind \in TransportKinds ->
                           tfaults + 1
                      [] OTHER -> tfaults

\* line 170, entered from the top of the loop: the call and the first next()
DrvCall ==
  /\ drv.pc \in {"start", "call"}
  /\ Len(out) < MaxOut
  /\ FirstNext(DrvSlot, drv.soup, drv_start_at(drv.e), Responses,
               SetCookieChoices)
  /\ DrvAfterGen
  /\ handover' = NoHandover
  /\ resolution' = NoResolution
  /\ io' = [io EXCEPT !.gets = IF gens'[DrvSlot].fetched # None
                                THEN Counted(io.gets) ELSE io.gets,
                       !.delay = 0]
  /\ UNCHANGED <<siteVars, nCalls>>

\* line 170, resumed by the consumer's next()
DrvPull ==
  /\ drv.pc = "iter"
  /\ Len(out) < MaxOut
  /\ Resume(DrvSlot)
  /\ DrvAfterGen
  /\ UNCHANGED <<siteVars, handover, resolution, io, nCalls>>

\* _solve_captcha's results: the human abandons, or the web view returns the
\* unlocked page of the failure URL and the cookies of the browser session
CaptchaResults(e) ==
  {[solved |-> FALSE, page |-> NoSoup, cookies |-> {}]} \cup
  {[solved |-> TRUE, page |-> ResultsPage(e.continuation_url), cookies |-> c] :
     c \in SUBSET SessionKeys}

\* (mutation) _solve_captcha returns whether or not the captcha was solved
captcha_abandoned_unchecked(res) == FALSE

\* _solve_captcha, lines 129-130: `if not web_view.is_captcha_solved: raise`
captcha_abandoned(res) == ~res.solved

\* (mutation) the captcha is handed to the human before the budget is looked at
budget_exceeded_late(r, e) == r > max_retries /\ e.cause # "Captcha"

\* lines 174-175: `if retries > max_retries: raise e`
budget_exceeded(r, e) == r > max_retries

\* line 178: the call _solve_captcha(e) and what it is given (lines 120-123)
Resolved(e, res) ==
  [invoked |-> TRUE, abandoned |-> ~res.solved,
   url |-> e.continuation_url, page |-> e.failure_soup]

\* lines 171-184: the except clause
DrvExcept ==
  /\ drv.pc = "except"
  /\ LET e == drv.e
         r == drv.retries + 1
     IN  IF budget_exceeded(r, e)
         THEN /\ drv' = [drv EXCEPT !.pc = "raised", !.retries = r]
              /\ UNCHANGED <<new_cookies_needed, cookies, gens, handover,
                             resolution>>
         ELSE IF e.cause = "Captcha"
         THEN \E res \in CaptchaResults(e) :
                /\ resolution' = Resolved(e, res)
                /\ IF captcha_abandoned(res)
                   THEN /\ drv' = [drv EXCEPT !.pc = "raised", !.retries = r,
                                     !.e = OtherError("UserAbandonedCaptchaException")]
                        /\ UNCHANGED <<new_cookies_needed, cookies, gens, handover>>
                   ELSE /\ drv' = [drv EXCEPT !.pc = "call", !.retries = r,
                                     !.soup = res.page]
                        /\ cookies_setter(res.cookies)
                        /\ handover' = IF SessionKeys \subseteq res.cookies
                                       THEN [on |-> TRUE, page |-> res.page,
                                             cookies |-> res.cookies]
                                       ELSE NoHandover
         ELSE /\ drv' = [drv EXCEPT !.pc = "call", !.retries = r,
                           !.soup = retry_soup(e)]
              /\ UNCHANGED <<new_cookies_needed, cookies, gens, handover,
                             resolution>>
  /\ op' = Op("except", "none", NoSoup)
  /\ UNCHANGED <<query_url, next_url, siteVars, out, failsSince,
                 tfaults, faultSeen, io, nCalls, lastFail>>

\* the draws of random.uniform's random(), in halves: 0, 1/2 and the upper
\* end 1, which rounding can reach
UniformDraws == {0, 1, 2}

\* random.uniform(a, b) is a + (b - a) * random()
uniform(a, b, k) == a + ((b - a) * k) \div 2

\* (mutation) the jitter is as large as the mean delay
delta_whole(average_delay) == 10 * average_delay

\* line 144: delta = .7 * average_delay, in tenths of a second
delta(average_delay) == 7 * average_delay

\* _sleep_between_requests, line 145: the argument of time.sleep, in tenths
\* of a second
sleep_between_requests(average_delay, k) ==
  10 * average_delay
    + uniform(0 - delta(average_delay), delta(average_delay), k)

\* (mutation) the driver sleeps after every page, the last one too
sleeps_after_every_page == TRUE

\* lines 189-190: `if scraper.has_next_page: _sleep_between_requests(...)`
sleeps_after_page == has_next_page

\* lines 185-192: the else clause
DrvElse ==
  /\ drv.pc = "else"
  /\ drv' = [drv EXCEPT !.pc = IF has_next_page THEN "call" ELSE "done",
                        !.soup = NoSoup,
                        !.retries = retries_after_success(drv.retries)]
  /\ \E k \in UniformDraws :
       io' = IF sleeps_after_page
             THEN [io EXCEPT !.sleeps = Counted(io.sleeps),
                             !.delay = sleep_between_requests(mean_delay, k)]
             ELSE io
  /\ op' = Op("else", IF sleeps_after_page THEN "slept" ELSE "none", NoSoup)
  /\ UNCHANGED <<ctlVars, gens, siteVars, out, failsSince,
                 tfaults, faultSeen, handover, resolution, nCalls, lastFail>>

\* scrape_interactive(scraper) is called again, on the same scraper, after a
\* run that ended normally: lines 165-166 of the new frame; the histories
\* are those of the new run
DrvRestart ==
  /\ drv.pc = "done"
  /\ drv' = [pc |-> "start", soup |-> NoSoup, retries |-> 0, e |-> NoErr]
  /\ gens' = [s \in Slots |-> NoGen]
  /\ out' = <<>>
  /\ failsSince' = 0
  /\ tfaults' = 0
  /\ faultSeen' = FALSE
  /\ handover' = NoHandover
  /\ resolution' = NoResolution
  /\ io' = [gets |-> 0, sleeps |-> 0, delay |-> 0]
  /\ op' = Op("scrape_interactive", "none", NoSoup)
  /\ UNCHANGED <<ctlVars, siteVars, nCalls, lastFail>>

\* ------------------------------------------------------------------------
\* the driver's specification: a scraper is constructed, a query is issued
\* (or not), scrape_interactive is iterated by its consumer
\* ------------------------------------------------------------------------

InitCookies == {{}, {"GSP"}}

\* interactive.py:153, the default of mean_delay
DefaultMeanDelay == 3

\* the state after construction, for a driver called with mean_delay = d
InitWith(d) ==
  /\ mean_delay = d
  /\ query_url = None
  /\ next_url = None
  /\ new_cookies_needed = FALSE
  /\ cookies \in InitCookies
  /\ gens = [s \in Slots |-> NoGen]
  /\ drv = [pc |-> "start", soup |-> NoSoup, retries |-> 0, e |-> NoErr]
  /\ max_retries \in 0..MaxRetries
  /\ npages \in 1..MaxPages
  /\ nrec \in [1..MaxPages -> 0..MaxRecs]
  /\ \A k \in 1..MaxPages : k > npages => nrec[k] = 0
  /\ out = <<>>
  /\ failsSince = 0
  /\ tfaults = 0
  /\ faultSeen = FALSE
  /\ handover = NoHandover
  /\ resolution = NoResolution
  /\ io = [gets |-> 0, sleeps |-> 0, delay |-> 0]
  /\ op = Op("init", "none", NoSoup)
  /\ nCalls = 0
  /\ lastFail = NoFail

Init == InitWith(DefaultMeanDelay)

Next ==
  \/ \E u \in 1..npages : IssueQuery(u)
  \/ DrvCall
  \/ DrvPull
  \/ DrvExcept
  \/ DrvElse
  \/ DrvRestart

Spec == Init /\ [][Next]_vars

\* the same, with a consumer that iterates scrape_interactive to its end: the
\* driver's loop runs on whenever it can (the human at the captcha may take
\* for ever)
InitLive == Init /\ cookies = {} /\ max_retries = MaxRetries

SpecLive ==
  /\ InitLive /\ [][Next]_vars
  /\ WF_vars(DrvCall) /\ WF_vars(DrvPull) /\ WF_vars(DrvElse)

\* the driver called with any positive mean_delay, on a result set of full
\* pages
InitPace ==
  /\ \E d \in 1..MaxDelay : InitWith(d)
  /\ max_retries = MaxRetries
  /\ npages = MaxPages
  /\ \A k \in 1..npages : nrec[k] = MaxRecs

SpecPace == InitPace /\ [][Next]_vars

\* ------------------------------------------------------------------------
\* the scraper's own specification: a caller uses a GScraper directly; it
\* may issue queries and install cookies while a generator is suspended
\* ------------------------------------------------------------------------

\* the pages a caller can hold and pass as page_soup
Soups == {NoSoup, CaptchaPage} \cup {ResultsPage(u) : u \in 1..npages}

\* the generator objects a caller no longer iterates, and those it does
Reusable(s) == gens[s].pc \in {"none", "done", "raised"}
Live == {s \in Slots : ~Reusable(s)}

\* scrape_next_page(page_soup, start_at): creates the generator object; its
\* body has not started.  The caller iterates one generator to its end before
\* it keeps another.
CtlCall(s, page_soup, start_at) ==
  /\ Live = {}
  /\ nCalls < MaxCalls
  /\ nCalls' = nCalls + 1
  /\ gens' = [gens EXCEPT ![s] = [NoGen EXCEPT !.pc = "created",
                                               !.page_soup = page_soup,
                                               !.start_at = start_at]]
  /\ op' = Op("call", "none", NoSoup)
  /\ UNCHANGED <<ctlVars, siteVars, drvVars, lastFail>>

\* the server's answers tried here: a failed GET is an HTTPError, and no
\* response sets a cookie
CtlResponses == {"ok", "captcha", "http_error"}

\* next() on generator s
CtlNext(s) ==
  /\ gens[s].pc \in {"created", "susp"}
  /\ IF gens[s].pc = "created"
     THEN FirstNext(s, gens[s].page_soup, gens[s].start_at, CtlResponses,
                    {{}})
     ELSE Resume(s)
  /\ UNCHANGED <<siteVars, drvVars, nCalls>>

\* while generator s is suspended at a yield, the caller passes a captcha page
\* it holds to another scrape_next_page call and runs that one to its end
\* (line 277 raises at its first next(), unless the gate did)
CtlSideCall(s) ==
  /\ gens[s].pc = "susp"
  /\ FirstNext(NoSlot, CaptchaPage, 0, {"ok"}, {{}})
  /\ UNCHANGED <<siteVars, drvVars, nCalls>>

\* scraper.cookies = c
CtlSetCookies(c) ==
  /\ cookies_setter(c)
  /\ op' = Op("set_cookies", "none", NoSoup)
  /\ UNCHANGED <<query_url, next_url, siteVars, drvVars, nCalls, lastFail>>

NextCtl ==
  \/ \E u \in 1..npages : IssueQuery(u)
  \/ \E s \in Slots, p \in Soups, a \in 0..MaxRecs : CtlCall(s, p, a)
  \/ \E s \in Slots : CtlNext(s)
  \/ \E s \in Slots : CtlSideCall(s)
  \/ \E c \in {{"NID"}, SessionKeys} : CtlSetCookies(c)

\* max_retries is the driver's parameter: it plays no part here
InitCtl ==
  /\ Init
  /\ max_retries = 0
  /\ cookies = {}
  /\ npages = MaxPages
  /\ \A k \in 1..npages : nrec[k] = MaxRecs

SpecCtl == InitCtl /\ [][NextCtl]_vars

\* the same caller, when it consumes every generator to its end (or to its
\* exception) before it does anything else with the scraper
SeqIssueQuery(u) == Live = {} /\ IssueQuery(u)
SeqSetCookies(c) == Live = {} /\ CtlSetCookies(c)

NextSeq ==
  \/ \E u \in 1..npages : SeqIssueQuery(u)
  \/ \E s \in Slots, p \in Soups, a \in 0..MaxRecs : CtlCall(s, p, a)
  \/ \E s \in Slots : CtlNext(s)
  \/ \E c \in {{"NID"}, SessionKeys} : SeqSetCookies(c)

SpecSeq == InitCtl /\ [][NextSeq]_vars

\* ------------------------------------------------------------------------
\* properties
\* ------------------------------------------------------------------------

\* records [a, b) of a results page, in document order
Records(soup, a, b) == [k \in 1..(b - a) |-> <<soup.url, a + k - 1>>]

\* the records of pages u, u+1, ..., npages, page after page
RECURSIVE Chain(_)
Chain(u) ==
  IF u = None \/ u > npages THEN <<>>
  ELSE Records(ResultsPage(u), 0, nrec[u]) \o Chain(u + 1)

IsPrefix(a, b) == Len(a) <= Len(b) /\ SubSeq(b, 1, Len(a)) = a

\* what one uninterrupted scrape_next_page yields for a page: the decoding
\* loop run from row 0 with no fault
RECURSIVE RunAll(_)
RunAll(g) ==
  LET r == do_scrape_step(g, "ok")
  IN  IF r.gen.pc = "susp" THEN RunAll(r.gen) ELSE r.gen.yielded
Uninterrupted(soup) ==
  RunAll([NoGen EXCEPT !.pc = "run", !.page_soup = soup, !.idx = first_row(0)])

\* the driver's step that calls scrape_next_page and runs its first next()
DrvCalls == drv.pc \in {"start", "call"} /\ drv'.pc # drv.pc

PreconditionViolations == {"AssertionError", "RuntimeError"}

\* C1: with a query issued and no fault, the driver forwards the records of
\* the pages of the result set, page after page, each record once and in
\* document order: what it has forwarded is always a prefix of that sequence,
\* and all of it when the driver ends normally.
C1_ForwardsEachPageOnce ==
  (query_url # None /\ ~faultSeen) =>
     /\ IsPrefix(out, Chain(query_url))
     /\ drv.pc = "done" => out = Chain(query_url)

\* C2: a scrape_next_page call without page_soup issues its GET to the
\* scraper's next_url as it is when the body runs.
C2_FetchesNextUrl ==
  [][(DrvCalls /\ drv.soup = NoSoup /\ gens'[DrvSlot].fetched # None)
       => gens'[DrvSlot].fetched = next_url]_vars

\* C3: after a ScrapeError of a decoding fault at offset i, the driver calls
\* scrape_next_page with the failed page and start_at = i.
C3_RetriesAtFailedOffset ==
  [][(DrvCalls /\ drv.soup # NoSoup /\ drv.e.cause = "Decode")
       => /\ gens'[DrvSlot].page_soup = drv.e.failure_soup
          /\ gens'[DrvSlot].start_at = drv.e.result_no]_vars

\* C4: a page whose decoding failed at offset i after records [0, i) were
\* yielded, resumed by scrape_next_page(that page, i) which completes: the
\* resumed call yields exactly records [i, n), and both outputs together are
\* what one uninterrupted call yields for the page.
C4_ResumeYieldsTheRest ==
  \A s \in Slots :
    LET g == gens[s]
        n == RowCount(g.page_soup)
    IN  /\ (lastFail.on /\ lastFail.start_at = 0) =>
               lastFail.yielded = Records(lastFail.soup, 0, lastFail.result_no)
        /\ (/\ lastFail.on /\ lastFail.start_at = 0
            /\ g.pc = "done"
            /\ g.page_soup = lastFail.soup
            /\ g.start_at = lastFail.result_no)
           => /\ g.yielded = Records(g.page_soup, lastFail.result_no, n)
              /\ lastFail.yielded \o g.yielded = Uninterrupted(g.page_soup)

C4_Witness ==
  \E s \in Slots :
    /\ lastFail.on /\ lastFail.start_at = 0 /\ lastFail.result_no > 0
    /\ gens[s].pc = "done"
    /\ gens[s].page_soup = lastFail.soup
    /\ gens[s].start_at = lastFail.result_no
    /\ Len(gens[s].yielded) > 0

\* C5: with max_retries = 2 and nothing but transport faults since the last
\* completed page, the driver raises to its caller after the third fault and
\* not before, and what it raises is the ScrapeError wrapping that fault.
C5_TransportRetryBudget ==
  (max_retries = 2 /\ drv.pc = "raised" /\ tfaults > 0 /\ failsSince = 0)
     => (tfaults = 3 /\ drv.e.kind = "ScrapeError")

\* C6: the driver raises a ScrapeError to its caller exactly when it is the
\* (max_retries + 1)-th ScrapeError since the last scrape_next_page call that
\* completed without fault (or since the start); every earlier one is handled,
\* the one raised is the last one scrape_next_page raised, and a completed
\* page sets the count back to zero.
C6_RetryBudget ==
  /\ failsSince <= max_retries + 1
  /\ drv.pc # "except" =>
       ((failsSince = max_retries + 1)
          <=> (drv.pc = "raised" /\ drv.e.kind = "ScrapeError"))
  /\ (drv.pc = "raised" /\ drv.e.kind = "ScrapeError") =>
       drv.e = gens[DrvSlot].err
  /\ drv.pc = "except" => drv.retries = failsSince - 1
  /\ drv.pc = "else" => failsSince = 0

C6_Witness ==
  /\ drv.pc = "raised" /\ drv.e.kind = "ScrapeError"
  /\ max_retries = 2 /\ failsSince = 3
  /\ Len(out) > 0

\* C7: with a query issued, whatever leaves scrape_interactive is the
\* ScrapeError that exceeded the budget or the abandonment exception.
C7_OnlyBudgetOrAbandonment ==
  (query_url # None /\ drv.pc = "raised") =>
     drv.e.kind \in {"ScrapeError", "UserAbandonedCaptchaException"}

\* C8: the first next() of a scrape_next_page generator that finds
\* new_cookies_needed true raises a precondition violation, no ScrapeError,
\* whatever next_url is and whether or not a page_soup was passed; it issues
\* no GET, yields no record, leaves next_url, query_url and the flag as
\* they are.
C8_CredentialGating ==
  [][\A s \in Slots :
       (new_cookies_needed /\ gens[s].pc = "created" /\ gens'[s].pc # "created")
         => /\ gens'[s].pc = "raised"
            /\ gens'[s].err.kind \in PreconditionViolations
            /\ gens'[s].fetched = None
            /\ gens'[s].yielded = <<>>
            /\ UNCHANGED <<next_url, query_url, new_cookies_needed>>]_vars

C8_Witness ==
  \E s \in Slots :
    /\ new_cookies_needed
    /\ gens[s].pc = "raised"
    /\ gens[s].err.kind = "AssertionError"
    /\ gens[s].page_soup.kind = "results"

\* C9: after a captcha ScrapeError within the budget, solved with cookies
\* that hold both session keys, the scraper's cookies are those cookies,
\* new_cookies_needed is false and the driver holds the unlocked page; its
\* next scrape_next_page call gets that page as page_soup, passes the gate,
\* issues no GET and ends, if not by completing the page or yielding, only by
\* a decoding fault of a row of the unlocked page.
C9_CredentialHandover ==
  /\ [](handover.on =>
          /\ drv.pc = "call"
          /\ cookies = handover.cookies
          /\ ~new_cookies_needed
          /\ drv.soup = handover.page)
  /\ [][(handover.on /\ DrvCalls) =>
          /\ gens'[DrvSlot].page_soup = handover.page
          /\ gens'[DrvSlot].fetched = None
          /\ \/ gens'[DrvSlot].pc \in {"susp", "done"}
             \/ /\ gens'[DrvSlot].pc = "raised"
                /\ gens'[DrvSlot].err.cause = "Decode"]_vars

C9_Witness ==
  /\ drv.pc = "else"
  /\ drv.e.cause = "Captcha"
  /\ drv.soup = ResultsPage(drv.e.continuation_url)
  /\ gens[DrvSlot].pc = "done"
  /\ gens[DrvSlot].fetched = None
  /\ cookies = SessionKeys
  /\ ~new_cookies_needed

\* C10: from a ScrapeError (captcha or decoding fault) until a page is
\* completed or the driver ends, every scrape_next_page call of the driver
\* passes a page_soup, and a GET is issued only by a call without one.
C10_NoRedundantFetch ==
  /\ []((drv.pc = "call" /\ failsSince > 0) => drv.soup # NoSoup)
  /\ [][(DrvCalls /\ gens'[DrvSlot].fetched # None)
          => (failsSince = 0 /\ drv.soup = NoSoup)]_vars

C10_Witness ==
  /\ drv.pc = "iter"
  /\ failsSince > 0
  /\ drv.e.cause = "Decode"
  /\ gens[DrvSlot].fetched = None
  /\ gens[DrvSlot].page_soup = drv.e.failure_soup

\* C11: when the captcha resolution signals that the human abandoned, the
\* driver ends with UserAbandonedCaptchaException, no ScrapeError; the step
\* that receives the signal forwards no record, runs no generator and installs
\* no cookies, and nothing follows it: no record, no scrape_next_page call, no
\* GET, no cookies.
C11_Abandonment ==
  /\ [](resolution.abandoned =>
          /\ drv.pc = "raised"
          /\ drv.e.kind = "UserAbandonedCaptchaException"
          /\ gens[DrvSlot].pc = "raised"
          /\ new_cookies_needed)
  /\ [][(resolution.abandoned \/ resolution'.abandoned) =>
          UNCHANGED <<out, gens, cookies, new_cookies_needed, next_url,
                      query_url>>]_vars

C11_Witness ==
  /\ resolution.abandoned
  /\ drv.pc = "raised"
  /\ resolution.page = CaptchaPage
  /\ Len(out) > 0

\* the query's first page has no next-page link
OnePageQuery ==
  query_url # None /\ find_next_url(ResultsPage(query_url)) = None

\* C12: for a query whose page has no next-page link and with no fault, the
\* driver causes exactly one GET, for the query's URL, forwards the records of
\* that page (any number, zero too) and nothing else, never sleeps, and ends
\* normally with has_next_page false; once started it does end, unless a
\* fault occurs.
C12_OnePageTermination ==
  /\ []((OnePageQuery /\ ~faultSeen) =>
          /\ io.sleeps = 0
          /\ io.gets = (IF drv.pc = "start" THEN 0 ELSE 1)
          /\ drv.pc \in {"start", "iter", "else", "done"}
          /\ drv.pc # "start" => gens[DrvSlot].fetched = query_url
          /\ IsPrefix(out, Records(ResultsPage(query_url), 0, nrec[query_url]))
          /\ drv.pc \in {"else", "done"} =>
               /\ out = Records(ResultsPage(query_url), 0, nrec[query_url])
               /\ ~has_next_page)
  /\ (OnePageQuery /\ drv.pc # "start") ~> (drv.pc = "done" \/ faultSeen)

C12_Witness ==
  /\ OnePageQuery /\ ~faultSeen
  /\ drv.pc = "done"
  /\ nrec[query_url] = 0
  /\ io.gets = 1

\* C13: new_cookies_needed goes from false to true only in a run of a
\* scrape_next_page generator that finds a captcha page (fetched or supplied),
\* and every such run sets it; it goes from true to false only when cookies
\* with both session keys are installed or a query is issued, and both do
\* clear it; installing cookies that lack a key leaves it as it is.
C13_FlagLifecycle ==
  [][/\ (~new_cookies_needed /\ new_cookies_needed') =>
          /\ op'.name = "next" /\ op'.result = "Captcha"
          /\ soup_contains_captcha(op'.soup)
     /\ (op'.name = "next" /\ op'.result = "Captcha") => new_cookies_needed'
     /\ (new_cookies_needed /\ ~new_cookies_needed') =>
          \/ op'.name = "issue_query"
          \/ op'.name = "set_cookies" /\ SessionKeys \subseteq cookies'
     /\ op'.name = "issue_query" => ~new_cookies_needed'
     /\ op'.name = "set_cookies" =>
          new_cookies_needed' =
            (new_cookies_needed /\ ~(SessionKeys \subseteq cookies'))]_vars

C13_Witness ==
  /\ op.name = "set_cookies"
  /\ new_cookies_needed
  /\ cookies = {"NID"}

RunFaults ==
  {"HTTPError", "ConnectionError", "Captcha", "Decode", "AssertionError",
   "RuntimeError"}

\* C14: next_url (and with it has_next_page) changes only in the run of a
\* scrape_next_page generator that completes its page, which sets it to the
\* page's next-page link, or by issuing a query; a run that ends in a fetch
\* fault, a captcha, a decoding fault or a precondition violation, a run that
\* yields, a call, and installing cookies leave it as it is.
C14_CursorFrame ==
  [][/\ next_url' # next_url =>
          \/ op'.name = "issue_query"
          \/ op'.name = "next" /\ op'.result = "done"
     /\ (op'.name = "next" /\ op'.result = "done") =>
          next_url' = find_next_url(op'.soup)
     /\ (op'.name = "next" /\ op'.result \in RunFaults \cup {"yield"}) =>
          next_url' = next_url
     /\ op'.name \in {"set_cookies", "call"} => next_url' = next_url]_vars

C14_Witness ==
  /\ op.name = "next" /\ op.result = "HTTPError"
  /\ query_url = 1 /\ next_url = 2

\* C15: a scrape_next_page generator started at offset s whose decoder faults
\* on row i (s <= i) has yielded exactly records [s, i) when it raises, and
\* raises a ScrapeError that carries its page, result_no = i counted from the
\* start of the page, and a cause that is no captcha; it is finished then, so
\* it yields no record after i.
C15_DecodeFault ==
  \A s \in Slots :
    LET g == gens[s]
    IN  (g.pc = "raised" /\ g.err.cause = "Decode") =>
          /\ g.err.kind = "ScrapeError"
          /\ g.err.failure_soup = g.page_soup
          /\ g.page_soup.kind = "results"
          /\ g.start_at <= g.err.result_no
          /\ g.err.result_no < RowCount(g.page_soup)
          /\ g.yielded = Records(g.page_soup, g.start_at, g.err.result_no)

C15_Witness ==
  \E s \in Slots :
    /\ gens[s].pc = "raised" /\ gens[s].err.cause = "Decode"
    /\ gens[s].start_at = 1
    /\ gens[s].err.result_no = 1
    /\ gens[s].fetched = None

\* C16: every ScrapeError a scrape_next_page generator of the driver raises,
\* for a captcha or for a decoding fault, carries as continuation_url the URL
\* of the page that could not be scraped: the URL fetched for it, if the run
\* fetched, which is the scraper's next_url of that call.
C16_FailureUrl ==
  LET g == gens[DrvSlot]
  IN  (g.pc = "raised" /\ g.err.kind = "ScrapeError") =>
        /\ g.err.continuation_url = next_url
        /\ g.fetched # None => g.err.continuation_url = g.fetched
        /\ g.page_soup.kind = "results" =>
             g.err.continuation_url = g.page_soup.url

\* C17: handling a ScrapeError, the driver calls _solve_captcha if and only if
\* the error is a captcha and is within the budget (the counter, this error
\* included, is at most max_retries), once, with the error's URL and page; it
\* never calls it for another ScrapeError, for the one that exceeds the budget
\* (with max_retries = 0: the first captcha), or anywhere else.
C17_ResolutionOncePerChallenge ==
  [][/\ drv.pc = "except" =>
          /\ ~resolution.invoked
          /\ resolution'.invoked <=>
               (drv.e.cause = "Captcha" /\ drv.retries + 1 <= max_retries)
          /\ resolution'.invoked =>
               /\ resolution'.url = drv.e.continuation_url
               /\ resolution'.page = drv.e.failure_soup
               /\ soup_contains_captcha(resolution'.page)
     /\ drv.pc # "except" => resolution' \in {resolution, NoResolution}]_vars

C17_Witness ==
  /\ max_retries = 0
  /\ drv.pc = "raised"
  /\ drv.e.kind = "ScrapeError" /\ drv.e.cause = "Captcha"
  /\ ~resolution.invoked
  /\ op.name = "except"

\* C18: a scrape_next_page call of the driver made while has_next_page is
\* false (no query issued yet, or the last page done) raises a precondition
\* violation at once: no GET, no record, no change of the scraper's state; the
\* driver neither counts nor retries it: it leaves scrape_interactive as it
\* is.
C18_ExhaustedCall ==
  [][(DrvCalls /\ ~has_next_page) =>
       /\ gens'[DrvSlot].pc = "raised"
       /\ gens'[DrvSlot].err.kind \in PreconditionViolations
       /\ gens'[DrvSlot].fetched = None
       /\ gens'[DrvSlot].yielded = <<>>
       /\ UNCHANGED <<ctlVars, out, io, failsSince>>
       /\ drv'.pc = "raised"
       /\ drv'.e = gens'[DrvSlot].err
       /\ drv'.retries = drv.retries]_vars

C18_Witness ==
  /\ drv.pc = "raised"
  /\ drv.e.kind = "RuntimeError"
  /\ query_url # None /\ ~has_next_page
  /\ io.gets = 0

\* C19: when every generator is consumed to its end before the next
\* operation on the scraper: new_cookies_needed implies has_next_page in
\* every state, no generator is suspended while the flag is true, and
\* has_next_page turns from true to false only in the run that completes a
\* page without a next-page link, of a generator that found the flag false.
C19_BlockedNotExhausted ==
  /\ [](/\ new_cookies_needed => has_next_page
        /\ \A s \in Slots : gens[s].pc = "susp" => ~new_cookies_needed)
  /\ [][(has_next_page /\ ~has_next_page') =>
          /\ op'.name = "next" /\ op'.result = "done"
          /\ find_next_url(op'.soup) = None
          /\ ~new_cookies_needed /\ ~new_cookies_needed']_vars

C19_Witness ==
  /\ op.name = "next" /\ op.result = "done"
  /\ query_url # None /\ ~has_next_page
  /\ cookies = SessionKeys

\* C20: issuing a query for u sets next_url to u (has_next_page true) and
\* clears new_cookies_needed, and next_url then stays u until a generator
\* started after the query completes its page: a generator of the previous
\* query that was suspended when the query was issued and is resumed to its
\* end afterwards does not change next_url.
C20_QueryOwnsCursor ==
  [][/\ op'.name = "issue_query" =>
          /\ next_url' = query_url' /\ has_next_page'
          /\ ~new_cookies_needed'
     /\ \A s \in Slots :
          (gens[s].pc = "susp" /\ gens[s].stale /\ gens'[s].pc # "susp") =>
             next_url' = next_url]_vars

\* ------------------------------------------------------------------------
\* the scoped HTTP session
\* ------------------------------------------------------------------------

\* the exceptions scrape_next_page raises before it opens a session
GateErrors == {"RuntimeError", "AssertionError"}

\* generator g ended with an exception raised inside its `with` block
RaisedInSession(g) == g.pc = "raised" /\ g.err.kind \notin GateErrors

\* C21: when a run of scrape_next_page has ended with an exception raised
\* while its session was open (a fetch fault, the captcha ScrapeError, a
\* decode ScrapeError), the scraper's cookies are the cookies of that
\* session; and a generator that has ended, normally or not, holds no open
\* session, while a suspended one does.
C21_SessionContext ==
  \A s \in Slots :
    /\ gens[s].pc \in {"done", "raised"} => ~gens[s].open
    /\ gens[s].pc = "susp" => gens[s].open
    /\ (op.name = "next" /\ RaisedInSession(gens[s])) => cookies = gens[s].jar

\* a GET of a session that started with a fresh jar was answered with an
\* error status and a cookie
C21_Witness ==
  /\ op.name = "next"
  /\ gens[DrvSlot].pc = "raised"
  /\ gens[DrvSlot].err.kind = "HTTPError"
  /\ gens[DrvSlot].jar = {"NID"}
  /\ ~gens[DrvSlot].open

\* C22: when a session of the scraper has terminated, normally or by an
\* exception, every cookie of that session (those it started with and those
\* set during it) is among the scraper's cookies, which the next session
\* starts from (NewSession).
C22_CookiesStored ==
  \A s \in Slots :
    (op.name = "next" /\ (gens[s].pc = "done" \/ RaisedInSession(gens[s])))
      => gens[s].jar \subseteq cookies

\* ------------------------------------------------------------------------
\* the driver's pacing
\* ------------------------------------------------------------------------

\* the driver step that went through _sleep_between_requests
Slept(o) == o.name = "else" /\ o.result = "slept"

\* C23: the driver sleeps exactly in the step that follows a scrape_next_page
\* run which completed without an exception while has_next_page is true: that
\* step is the driver's next one, it sleeps once if has_next_page and not at
\* all otherwise, and no other step (a forwarded record, a ScrapeError, a
\* retry, the captcha hand-off, the end of the last page) sleeps.
C23_PacingSleep ==
  [][ /\ Slept(op') =>
           /\ op.name = "next" /\ op.result = "done"
           /\ gens[DrvSlot].pc = "done"
           /\ has_next_page
           /\ io'.sleeps = Counted(io.sleeps)
      /\ (op.name = "next" /\ op.result = "done" /\ drv.pc = "else") =>
           /\ op'.name = "else"
           /\ Slept(op') <=> has_next_page
      /\ io'.sleeps # io.sleeps =>
           Slept(op') \/ op'.name = "scrape_interactive"
    ]_vars

\* the driver has slept after a page of two forwarded records, once
C23_Witness ==
  /\ Slept(op)
  /\ io.sleeps = 1
  /\ Len(out) = 2
  /\ drv.pc = "call"

\* C24: for every mean delay d > 0, the delay of every pacing sleep the
\* driver requests lies between 0.3 d and 1.7 d (here in tenths of a second:
\* between 3 d and 17 d), so it is never negative; and a delay is requested
\* exactly by the steps that sleep.
C24_PacingBound ==
  /\ Slept(op) <=> io.delay # 0
  /\ Slept(op) =>
       /\ mean_delay > 0
       /\ 3 * mean_delay <= io.delay
       /\ io.delay <= 17 * mean_delay
       /\ io.delay >= 0

\* a sleep of the longest delay, for a mean delay other than the smallest
C24_Witness ==
  /\ Slept(op)
  /\ mean_delay > 1
  /\ io.delay = 17 * mean_delay

====
